---------------------------- MODULE Spec2Model ----------------------------
(***************************************************************************)
(* A model of cibin/confidence.py: the enumeration of potential-outcome    *)
(* tables (N_generator, filterTable), their expansion                      *)
(* (potential_outcomes), the randomization confidence interval             *)
(* (tau_twosided_ci) and the hypergeometric acceptance region              *)
(* (hypergeom_accept).                                                     *)
(*                                                                         *)
(* Tables are sequences <<N00, N01, N10, N11>>: Python's Nt[0..3] are      *)
(* Nt[1..4] here.  Real numbers are exact rationals kept as integers over  *)
(* a stated common denominator; alpha is k/AlphaDen and cl is k/ClDen.     *)
(***************************************************************************)
EXTENDS Integers, Sequences, FiniteSets, TLC

VARIABLES
    cfg,        \* tau_twosided_ci: the arguments n11, n10, n01, n00, exact, max_combinations, reps
    alpha,      \* tau_twosided_ci: the numerator of alpha over AlphaDen
    pc,         \* tau_twosided_ci: "idle", "loop", "done" or "error"
    gen,        \* the tables N_generator has still to yield
    conf_set,   \* conf_set: tau (numerator over N) -> table
    n_tables,   \* n_tables
    n_reps,     \* n_reps
    accepted,   \* the tables accepted so far, in enumeration order
    result,     \* what the call returned or raised
    prev,       \* the alpha and the outcome of the previous exact call on the same counts
    fin,        \* the arguments of a call of filterTable, potential_outcomes or N_generator
    fout,       \* what that call raised (err), or returned: a boolean (ok) or a list (val)
    hg          \* the frame of hypergeom_accept

vars == <<cfg, alpha, pc, gen, conf_set, n_tables, n_reps, accepted, result, prev, fin, fout, hg>>
ciVars == <<cfg, alpha, pc, gen, conf_set, n_tables, n_reps, accepted, result, prev>>
fnVars == <<fin, fout>>

-----------------------------------------------------------------------------
(* Bounds *)

\* the largest number of subjects of a call of tau_twosided_ci
MaxN == 4
\* alpha and cl are k / AlphaDen
AlphaDen == 4
\* the largest number of subjects of a call with exact=False
MaxNApprox == 3
\* the largest reps of a call with exact=False
MaxReps == 1
\* the largest entry of the arguments of the table functions
MaxCount == 2
\* the largest population of hypergeom_accept
MaxPop == 6
\* cl is k / ClDen
ClDen == 10

\* the default of max_combinations
DefaultMaxCombinations == 100000

-----------------------------------------------------------------------------
(* Arithmetic helpers *)

Abs(x) == IF x < 0 THEN -x ELSE x

Max(S) == CHOOSE x \in S : \A y \in S : y <= x

Min(S) == CHOOSE x \in S : \A y \in S : x <= y

RECURSIVE SumSeq(_)
SumSeq(s) == IF s = <<>> THEN 0 ELSE Head(s) + SumSeq(Tail(s))

RECURSIVE SumOver(_, _)
\* the sum of f[x] over the finite set S
SumOver(S, f) ==
    IF S = {} THEN 0
    ELSE LET x == CHOOSE y \in S : TRUE IN f[x] + SumOver(S \ {x}, f)

\* [x] * k of Python: k copies of x (none when k <= 0)
Rep(x, k) == [i \in 1..k |-> x]

RECURSIVE Binom(_, _)
Binom(N, k) ==
    IF k = 0 THEN 1
    ELSE IF N = 0 THEN 0
    ELSE Binom(N - 1, k - 1) + Binom(N - 1, k)

\* scipy.special.comb(N, k, exact=True): 0 outside 0 <= k <= N
Comb(N, k) == IF N < 0 \/ k < 0 \/ k > N THEN 0 ELSE Binom(N, k)

-----------------------------------------------------------------------------
(* filterTable *)

AnyNegative(n00, n01, n10, n11) == (n11 < 0) \/ (n10 < 0) \/ (n01 < 0) \/ (n00 < 0)

FilterTableRaises(Nt, n00, n01, n10, n11) ==
    \/ SumSeq(Nt) < (n00 + n01 + n10 + n11)
    \/ AnyNegative(n00, n01, n10, n11)

FilterTableOk(Nt, n00, n01, n10, n11) ==
    LET N == SumSeq(Nt) IN
    Max({0, n11 - Nt[2], Nt[4] - n01, Nt[3] + Nt[4] - n10 - n01})
        <= Min({Nt[4], n11, Nt[3] + Nt[4] - n01, N - Nt[2] - n01 - n10})

filterTable(Nt, n00, n01, n10, n11) ==
    IF FilterTableRaises(Nt, n00, n01, n10, n11)
    THEN [err |-> "ValueError"]
    ELSE [err |-> "none", val |-> FilterTableOk(Nt, n00, n01, n10, n11)]

-----------------------------------------------------------------------------
(* N_generator *)

RECURSIVE LoopK(_, _, _, _)
\* for k in range(N-i-j), from k on: the candidates [i, j, k, N-i-j-k]
LoopK(N, i, j, k) ==
    IF k >= N - i - j THEN <<>>
    ELSE <<<<i, j, k, N - i - j - k>>>> \o LoopK(N, i, j, k + 1)

RECURSIVE LoopJ(_, _, _)
\* for j in range(N-i), from j on
LoopJ(N, i, j) == IF j >= N - i THEN <<>> ELSE LoopK(N, i, j, 0) \o LoopJ(N, i, j + 1)

RECURSIVE LoopI(_, _)
\* for i in range(N), from i on
LoopI(N, i) == IF i >= N THEN <<>> ELSE LoopJ(N, i, 0) \o LoopI(N, i + 1)

NGeneratorRaises(N, n00, n01, n10, n11) ==
    \/ N < (n00 + n01 + n10 + n11)
    \/ AnyNegative(n00, n01, n10, n11)

\* the tables N_generator yields, in order (when it does not raise)
NGeneratorYields(N, n00, n01, n10, n11) ==
    SelectSeq(LoopI(N, 0), LAMBDA Nt : FilterTableOk(Nt, n00, n01, n10, n11))

N_generator(N, n00, n01, n10, n11) ==
    IF NGeneratorRaises(N, n00, n01, n10, n11)
    THEN [err |-> "ValueError"]
    ELSE [err |-> "none", val |-> NGeneratorYields(N, n00, n01, n10, n11)]

-----------------------------------------------------------------------------
(* potential_outcomes *)

PotentialOutcomesRaises(Nt) == Len(Nt) # 4 \/ \E i \in 1..Len(Nt) : Nt[i] < 0

\* a faulty variant: the [0, 1] and [1, 0] blocks are swapped
PotentialOutcomesRowsSwapped(Nt) ==
    Rep(<<0, 0>>, Nt[1]) \o Rep(<<1, 0>>, Nt[2]) \o Rep(<<0, 1>>, Nt[3]) \o Rep(<<1, 1>>, Nt[4])

\* the rows of the N x 2 matrix: <<outcome under control, outcome under treatment>>
PotentialOutcomesRows(Nt) ==
    Rep(<<0, 0>>, Nt[1]) \o Rep(<<0, 1>>, Nt[2]) \o Rep(<<1, 0>>, Nt[3]) \o Rep(<<1, 1>>, Nt[4])

potential_outcomes(Nt) ==
    IF PotentialOutcomesRaises(Nt)
    THEN [err |-> "ValueError"]
    ELSE [err |-> "none", val |-> PotentialOutcomesRows(Nt)]

-----------------------------------------------------------------------------
(* tau_twosided_ci *)

\* combinations(range(N), n): the samples of n of the N subjects
Samples(N, n) == {S \in SUBSET (1..N) : Cardinality(S) = n}

\* tau = (Nt[1]-Nt[2])/N, as its numerator over N
Tau(Nt) == Nt[2] - Nt[3]

\* t_star = n11/n - n01/(N-n), times n*(N-n)*N
TStarScaled(c) ==
    LET N == c.n11 + c.n10 + c.n01 + c.n00
        n == c.n11 + c.n10
    IN  c.n11 * (N - n) * N - c.n01 * n * N

\* tau, times n*(N-n)*N
TauScaled(Nt, N, n) == Tau(Nt) * n * (N - n)

\* tau_hat = mask.dot(table[:, 1])/n - (~mask).dot(table[:, 0])/(N-n) of one
\* sample S, times n*(N-n)*N
TauHatScaled(table, S, N, n) ==
    LET treated == SumOver(S, [s \in 1..N |-> table[s][2]])
        control == SumOver((1..N) \ S, [s \in 1..N |-> table[s][1]])
    IN  treated * (N - n) * N - control * n * N

\* the k-th smallest (k from 0) of the values of the function dist
KthSmallest(dist, k) ==
    LET D == DOMAIN dist
        V == {dist[d] : d \in D}
    IN  CHOOSE v \in V :
            /\ Cardinality({d \in D : dist[d] < v}) <= k
            /\ Cardinality({d \in D : dist[d] <= v}) >= k + 1

\* np.percentile(dist, 100*qNum/qDen), linear interpolation, times qDen
PercentileScaled(dist, qNum, qDen) ==
    LET M   == Cardinality(DOMAIN dist)
        pos == qNum * (M - 1)
        lo  == pos \div qDen
        rem == pos % qDen
        hi  == IF rem = 0 THEN lo ELSE lo + 1
        vlo == KthSmallest(dist, lo)
        vhi == KthSmallest(dist, hi)
    IN  vlo * qDen + rem * (vhi - vlo)

\* a faulty variant: the percentile is taken at alpha instead of 1 - alpha
QuantileNumAlpha(a) == a

\* the numerator over AlphaDen of the quantile (1-alpha)
QuantileNum(a) == AlphaDen - a

\* abs(tau_hat - tau) of every sample of n of the N rows of the table of Nt,
\* times n*(N-n)*N
DistOfSample(c, Nt) ==
    LET N     == c.n11 + c.n10 + c.n01 + c.n00
        n     == c.n11 + c.n10
        table == potential_outcomes(Nt).val
        tau   == TauScaled(Nt, N, n)
    IN  [S \in Samples(N, n) |-> Abs(TauHatScaled(table, S, N, n) - tau)]

\* t <= np.percentile(dist, (1-alpha)*100), where t = abs(t_star - tau) and
\* dist holds abs(tau_hat - tau) of the rows of mask
InConfidenceBounds(c, a, Nt, dist) ==
    LET N   == c.n11 + c.n10 + c.n01 + c.n00
        n   == c.n11 + c.n10
        t   == Abs(TStarScaled(c) - TauScaled(Nt, N, n))
    IN  t * AlphaDen <= PercentileScaled(dist, QuantileNum(a), AlphaDen)

\* a faulty variant: the cap is compared with >=
CapExceededGe(c) ==
    c.exact /\ Comb(c.n11 + c.n10 + c.n01 + c.n00, c.n11 + c.n10) >= c.max_combinations

\* exact and n_combs > max_combinations
CapExceeded(c) ==
    c.exact /\ Comb(c.n11 + c.n10 + c.n01 + c.n00, c.n11 + c.n10) > c.max_combinations

\* Where the code before the loop stops: the division of t_star, the cap, alpha,
\* the counts, or nowhere ("ok")
Preamble(c, a) ==
    LET N == c.n11 + c.n10 + c.n01 + c.n00
        n == c.n11 + c.n10
    IN  IF n = 0 \/ N - n = 0 THEN "t_star"
        ELSE IF CapExceeded(c) THEN "cap"
        ELSE IF a <= 0 \/ a >= AlphaDen THEN "alpha"
        ELSE IF AnyNegative(c.n00, c.n01, c.n10, c.n11) THEN "counts"
        ELSE "ok"

ErrorKind(site) == IF site = "t_star" THEN "ZeroDivisionError" ELSE "ValueError"

\* a faulty variant: a tau already in the set keeps its table
PutIfAbsent(f, k, v) == [x \in DOMAIN f \cup {k} |-> IF x \in DOMAIN f THEN f[x] ELSE v]

\* conf_set[tau] = Nt
Put(f, k, v) == [x \in DOMAIN f \cup {k} |-> IF x = k THEN v ELSE f[x]]

\* a faulty variant: only accepted tables add replications
RepsAddedIfAccepted(c, ok) ==
    IF ~ok THEN 0
    ELSE IF c.exact THEN Comb(c.n11 + c.n10 + c.n01 + c.n00, c.n11 + c.n10) ELSE c.reps

\* n_reps += n_combs, or n_reps += reps
RepsAdded(c, ok) ==
    IF c.exact THEN Comb(c.n11 + c.n10 + c.n01 + c.n00, c.n11 + c.n10) ELSE c.reps

NoResult == [kind |-> "none"]

MaxCombinationsChoices == {3, DefaultMaxCombinations}

Counts == {-1} \cup (0..MaxN)

\* the arguments of the calls; reps is not read when exact, max_combinations
\* is not read otherwise
Configs ==
    {c \in [n11 : Counts, n10 : Counts, n01 : Counts, n00 : Counts, exact : BOOLEAN,
            max_combinations : MaxCombinationsChoices, reps : 1..MaxReps] :
        /\ c.n11 + c.n10 + c.n01 + c.n00 \in 0..MaxN
        /\ ~c.exact => c.n11 + c.n10 + c.n01 + c.n00 <= MaxNApprox
        /\ c.exact => c.reps = 1
        /\ ~c.exact => c.max_combinations = DefaultMaxCombinations}

Alphas == 0..AlphaDen

CIInit ==
    /\ cfg \in Configs
    /\ alpha = 0
    /\ pc = "idle"
    /\ gen = <<>>
    /\ conf_set = <<>>
    /\ n_tables = 0
    /\ n_reps = 0
    /\ accepted = <<>>
    /\ result = NoResult
    /\ prev = [alpha |-> 0, result |-> NoResult]

\* lines 50-66: the call up to the loop
Call ==
    /\ pc = "idle"
    /\ \E a \in Alphas :
        LET site == Preamble(cfg, a)
            g    == N_generator(cfg.n11 + cfg.n10 + cfg.n01 + cfg.n00,
                                cfg.n00, cfg.n01, cfg.n10, cfg.n11)
        IN  /\ alpha' = a
            /\ IF site # "ok"
               THEN /\ pc' = "error"
                    /\ result' = [kind |-> ErrorKind(site), site |-> site]
                    /\ gen' = <<>>
               ELSE IF g.err # "none"
               THEN /\ pc' = "error"
                    /\ result' = [kind |-> g.err, site |-> "N_generator"]
                    /\ gen' = <<>>
               ELSE /\ pc' = "loop"
                    /\ result' = NoResult
                    /\ gen' = g.val
    /\ conf_set' = <<>>
    /\ n_tables' = 0
    /\ n_reps' = 0
    /\ accepted' = <<>>
    /\ UNCHANGED <<cfg, prev>>

\* lines 68-101: one pass of the loop, on the next table of the generator
Iterate ==
    /\ pc = "loop"
    /\ gen # <<>>
    /\ LET Nt == Head(gen)
           N  == cfg.n11 + cfg.n10 + cfg.n01 + cfg.n00
           n  == cfg.n11 + cfg.n10
           d  == DistOfSample(cfg, Nt)
       IN  \* the rows of mask: every combination, or reps random samples
           \E mask \in (IF cfg.exact
                        THEN {[S \in Samples(N, n) |-> S]}
                        ELSE [1..cfg.reps -> Samples(N, n)]) :
              LET dist == [i \in DOMAIN mask |-> d[mask[i]]]
                  ok   == InConfidenceBounds(cfg, alpha, Nt, dist)
              IN  /\ conf_set' = IF ok THEN Put(conf_set, Tau(Nt), Nt) ELSE conf_set
                  /\ accepted' = IF ok THEN Append(accepted, Nt) ELSE accepted
                  /\ n_reps' = n_reps + RepsAdded(cfg, ok)
    /\ n_tables' = n_tables + 1
    /\ gen' = Tail(gen)
    /\ UNCHANGED <<cfg, alpha, pc, result, prev>>

\* lines 103-105: min and max of the keys, and the return
Return ==
    /\ pc = "loop"
    /\ gen = <<>>
    /\ IF DOMAIN conf_set = {}
       THEN /\ pc' = "error"
            /\ result' = [kind |-> "ValueError", site |-> "min"]
       ELSE LET lower == Min(DOMAIN conf_set)
                upper == Max(DOMAIN conf_set)
            IN  /\ pc' = "done"
                /\ result' = [kind |-> "value",
                              bounds |-> <<lower, upper>>,
                              alloc  |-> <<conf_set[lower], conf_set[upper]>>,
                              counts |-> <<n_tables, n_reps>>]
    /\ UNCHANGED <<cfg, alpha, gen, conf_set, n_tables, n_reps, accepted, prev>>

\* the caller takes the outcome (and keeps that of an exact call to compare),
\* and may call again with the same counts
Finish ==
    /\ pc \in {"done", "error"}
    /\ pc' = "idle"
    /\ prev' = IF cfg.exact THEN [alpha |-> alpha, result |-> result] ELSE prev
    /\ result' = NoResult
    /\ gen' = <<>>
    /\ conf_set' = <<>>
    /\ n_tables' = 0
    /\ n_reps' = 0
    /\ accepted' = <<>>
    /\ alpha' = 0
    /\ UNCHANGED cfg

FnIdle == fin = <<>> /\ fout = NoResult

HgIdleFrame ==
    [pc |-> "idle", N |-> 0, G |-> 0, n |-> 0, cl |-> 0, randomized |-> FALSE,
     I |-> <<>>, bottom |-> 0, top |-> 0, J |-> <<>>, prob_J |-> 0, prob_tail |-> 0,
     removed_last |-> {}, err |-> "none"]

HgIdle == hg = HgIdleFrame

CIIdle ==
    /\ cfg = <<>>
    /\ alpha = 0
    /\ pc = "idle"
    /\ gen = <<>>
    /\ conf_set = <<>>
    /\ n_tables = 0
    /\ n_reps = 0
    /\ accepted = <<>>
    /\ result = NoResult
    /\ prev = [alpha |-> 0, result |-> NoResult]

Init == CIInit /\ FnIdle /\ HgIdle

Next ==
    \/ Call /\ UNCHANGED <<fin, fout, hg>>
    \/ Iterate /\ UNCHANGED <<fin, fout, hg>>
    \/ Return /\ UNCHANGED <<fin, fout, hg>>
    \/ Finish /\ UNCHANGED <<fin, fout, hg>>

Spec == Init /\ [][Next]_vars

-----------------------------------------------------------------------------
(* Calls of the table functions on their own *)

ObservedInputs == [n00 : -1..MaxCount, n01 : -1..MaxCount, n10 : -1..MaxCount, n11 : -1..MaxCount]

\* candidate tables: four non-negative counts
TableInputs == [1..4 -> 0..MaxCount]

\* arguments of potential_outcomes: four entries of either sign, or three or five entries
OutcomeInputs ==
    [1..4 -> -1..MaxCount] \cup {[i \in 1..k |-> v] : k \in {3, 5}, v \in -1..MaxCount}

ObservedTotal(o) == o.n00 + o.n01 + o.n10 + o.n11

CallFilterTable ==
    /\ fin = <<>>
    /\ \E Nt \in TableInputs, o \in ObservedInputs :
        /\ fin' = [op |-> "filterTable", Nt |-> Nt, obs |-> o]
        /\ fout' = LET r == filterTable(Nt, o.n00, o.n01, o.n10, o.n11)
                   IN  [err |-> r.err, ok |-> r.err = "none" /\ r.val, val |-> <<>>]

CallPotentialOutcomes ==
    /\ fin = <<>>
    /\ \E Nt \in OutcomeInputs :
        /\ fin' = [op |-> "potential_outcomes", Nt |-> Nt]
        /\ fout' = LET r == potential_outcomes(Nt)
                   IN  [err |-> r.err, ok |-> FALSE, val |-> IF r.err = "none" THEN r.val ELSE <<>>]

\* list(N_generator(N, ...)): the generator run to its end
CallNGenerator ==
    /\ fin = <<>>
    /\ \E o \in ObservedInputs :
        \E N \in {ObservedTotal(o) - 1, ObservedTotal(o), ObservedTotal(o) + 1} \cap (0..(4 * MaxCount + 1)) :
            /\ fin' = [op |-> "N_generator", N |-> N, obs |-> o]
            /\ fout' = LET r == N_generator(N, o.n00, o.n01, o.n10, o.n11)
                       IN  [err |-> r.err, ok |-> FALSE, val |-> IF r.err = "none" THEN r.val ELSE <<>>]

\* the caller takes the outcome
FnDone ==
    /\ fin # <<>>
    /\ fin' = <<>>
    /\ fout' = NoResult

FnInit == CIIdle /\ FnIdle /\ HgIdle

FnNext ==
    \/ CallFilterTable /\ UNCHANGED <<ciVars, hg>>
    \/ CallPotentialOutcomes /\ UNCHANGED <<ciVars, hg>>
    \/ CallNGenerator /\ UNCHANGED <<ciVars, hg>>
    \/ FnDone /\ UNCHANGED <<ciVars, hg>>

SpecFn == FnInit /\ [][FnNext]_vars

-----------------------------------------------------------------------------
(* hypergeom_accept *)

\* hypergeom.pmf(k, N, G, n), times comb(N, n)
PmfNum(N, G, n, k) == Comb(G, k) * Comb(N - G, n - k)

\* whether index i of an array of n+1 entries raises IndexError
OutOfRange(h, i) == i > h.n \/ i < -(h.n + 1)

\* pmf[i], i in range: a negative index counts from the end
PmfAt(h, i) == PmfNum(h.N, h.G, h.n, IF i < 0 THEN h.n + 1 + i ELSE i)

\* prob_tail < alpha, with alpha = 1 - cl
TailBelowAlpha(h) == h.prob_tail * ClDen < (ClDen - h.cl) * Comb(h.N, h.n)

\* a faulty variant: the back-off compares with cl instead of alpha
TailAboveCl(h) == h.prob_tail * ClDen > h.cl * Comb(h.N, h.n)

\* prob_tail > alpha
TailAboveAlpha(h) == h.prob_tail * ClDen > (ClDen - h.cl) * Comb(h.N, h.n)

\* I.remove(j): the first occurrence of j leaves the list
RemoveFirst(I, j) ==
    LET at == Min({i \in 1..Len(I) : I[i] = j})
    IN  SubSeq(I, 1, at - 1) \o SubSeq(I, at + 1, Len(I))

\* whether I.remove(j) finds j for every j of J (the values of J are distinct)
CanRemoveAll(I, J) == \A k \in 1..Len(J) : \E i \in 1..Len(I) : I[i] = J[k]

RECURSIVE RemoveAll(_, _)
\* for j in J: I.remove(j)
RemoveAll(I, J) ==
    IF J = <<>> THEN I ELSE RemoveAll(RemoveFirst(I, Head(J)), Tail(J))

\* lines 239-251: the assertions and the initial values
HgCall ==
    /\ hg.pc = "idle"
    /\ \E N \in 0..MaxPop, G \in 0..MaxPop, n \in 0..MaxPop, cl \in 0..ClDen, r \in BOOLEAN :
        IF ~(n <= N) \/ ~(G <= N) \/ ~(0 < cl /\ cl < ClDen)
        THEN hg' = [HgIdleFrame EXCEPT !.pc = "error", !.err = "AssertionError",
                        !.N = N, !.G = G, !.n = n, !.cl = cl, !.randomized = r]
        ELSE hg' = [HgIdleFrame EXCEPT !.pc = "while1",
                        !.N = N, !.G = G, !.n = n, !.cl = cl, !.randomized = r,
                        !.I = [i \in 1..(n + 1) |-> i - 1], !.bottom = 0, !.top = n]

\* lines 252-275: one pass of the first loop
HgRemove ==
    /\ hg.pc = "while1"
    /\ TailBelowAlpha(hg)
    /\ IF OutOfRange(hg, hg.bottom) \/ OutOfRange(hg, hg.top)
       THEN hg' = [hg EXCEPT !.pc = "error", !.err = "IndexError"]
       ELSE LET p_bot == PmfAt(hg, hg.bottom)
                p_top == PmfAt(hg, hg.top)
                both  == ~(p_bot < p_top) /\ ~(p_bot > p_top) /\ hg.bottom < hg.top
                J     == IF p_bot < p_top THEN <<hg.bottom>>
                         ELSE IF p_bot > p_top THEN <<hg.top>>
                         ELSE IF both THEN <<hg.bottom, hg.top>>
                         ELSE <<hg.bottom>>
                pJ    == IF p_bot < p_top THEN p_bot
                         ELSE IF p_bot > p_top THEN p_top
                         ELSE IF both THEN p_bot + p_top
                         ELSE p_bot
                b     == IF p_bot > p_top THEN hg.bottom ELSE hg.bottom + 1
                t     == IF p_bot > p_top \/ both THEN hg.top - 1 ELSE hg.top
            IN  IF ~CanRemoveAll(hg.I, J)
                THEN hg' = [hg EXCEPT !.pc = "error", !.err = "ValueError",
                                !.J = J, !.prob_J = pJ, !.bottom = b, !.top = t,
                                !.prob_tail = @ + pJ]
                ELSE hg' = [hg EXCEPT !.J = J, !.prob_J = pJ, !.bottom = b, !.top = t,
                                !.prob_tail = @ + pJ, !.I = RemoveAll(@, J),
                                !.removed_last = {J[i] : i \in 1..Len(J)}]

\* line 252 false, line 276: the first loop ends
HgEndRemove ==
    /\ hg.pc = "while1"
    /\ ~TailBelowAlpha(hg)
    /\ hg' = [hg EXCEPT !.pc = IF hg.randomized = FALSE THEN "while2" ELSE "done"]

\* lines 277-280: one pass of the back-off loop
HgBackOff ==
    /\ hg.pc = "while2"
    /\ TailAboveAlpha(hg)
    /\ IF hg.J = <<>>
       THEN hg' = [hg EXCEPT !.pc = "error", !.err = "IndexError"]
       ELSE LET j == hg.J[Len(hg.J)]
            IN  IF OutOfRange(hg, j)
                THEN hg' = [hg EXCEPT !.pc = "error", !.err = "IndexError",
                                !.J = SubSeq(hg.J, 1, Len(hg.J) - 1)]
                ELSE hg' = [hg EXCEPT !.J = SubSeq(hg.J, 1, Len(hg.J) - 1),
                                !.prob_tail = @ - PmfAt(hg, j), !.I = Append(@, j)]

\* line 277 false, line 281: return I
HgReturn ==
    /\ hg.pc = "while2"
    /\ ~TailAboveAlpha(hg)
    /\ hg' = [hg EXCEPT !.pc = "done"]

HgInit == CIIdle /\ FnIdle /\ HgIdle

HgNext ==
    \/ HgCall /\ UNCHANGED <<ciVars, fnVars>>
    \/ HgRemove /\ UNCHANGED <<ciVars, fnVars>>
    \/ HgEndRemove /\ UNCHANGED <<ciVars, fnVars>>
    \/ HgBackOff /\ UNCHANGED <<ciVars, fnVars>>
    \/ HgReturn /\ UNCHANGED <<ciVars, fnVars>>

SpecHG == HgInit /\ [][HgNext]_vars

-----------------------------------------------------------------------------
(* Properties *)

N_of(c) == c.n11 + c.n10 + c.n01 + c.n00

n_of(c) == c.n11 + c.n10

\* an ObservedTable: no negative count, and 0 < n < N
ValidObserved(c) ==
    /\ ~AnyNegative(c.n00, c.n01, c.n10, c.n11)
    /\ 0 < n_of(c)
    /\ n_of(c) < N_of(c)

ValidAlpha(a) == 0 < a /\ a < AlphaDen

\* the 4-tuples of non-negative integers that sum to N
Compositions(N) == {t \in [1..4 -> 0..N] : SumSeq(t) = N}

Range(s) == {s[i] : i \in DOMAIN s}

\* C1: for N >= 1 and non-negative observed counts that sum to N, N_generator
\* yields exactly the compositions of N into four non-negative parts that
\* filterTable accepts, those with a zero part included.
C1_YieldsEveryConsistentTable ==
    (/\ fin # <<>>
     /\ fin.op = "N_generator"
     /\ fin.N >= 1
     /\ ~AnyNegative(fin.obs.n00, fin.obs.n01, fin.obs.n10, fin.obs.n11)
     /\ ObservedTotal(fin.obs) = fin.N)
    => /\ fout.err = "none"
       /\ Range(fout.val) =
            {t \in Compositions(fin.N) :
                FilterTableOk(t, fin.obs.n00, fin.obs.n01, fin.obs.n10, fin.obs.n11)}

\* C2: for a valid ObservedTable, alpha in (0,1) and C(N,n) within the cap,
\* the exact call returns an interval, and its lower bound is at most its
\* upper bound.
C2_ExactCallReturnsInterval ==
    (/\ pc \in {"done", "error"}
     /\ ValidObserved(cfg)
     /\ ValidAlpha(alpha)
     /\ cfg.exact
     /\ Comb(N_of(cfg), n_of(cfg)) <= cfg.max_combinations)
    => /\ pc = "done"
       /\ result.bounds[1] <= result.bounds[2]

\* C3: a call with alpha outside (0,1) or with a negative count ends in
\* ValueError, and in no other error and no result.
C3_InvalidInputIsValueError ==
    (/\ pc # "idle"
     /\ \/ ~ValidAlpha(alpha)
        \/ AnyNegative(cfg.n00, cfg.n01, cfg.n10, cfg.n11))
    => /\ pc = "error"
       /\ result.kind = "ValueError"

\* C4: for a valid ObservedTable, an exact call with C(N,n) > max_combinations
\* ends in ValueError at the cap with n_tables = n_reps = 0, and a call with
\* C(N,n) <= max_combinations, or not exact, never fails at the cap.
C4_CapFailsBeforeTheLoop ==
    (pc # "idle" /\ ValidObserved(cfg))
    => IF cfg.exact /\ Comb(N_of(cfg), n_of(cfg)) > cfg.max_combinations
       THEN /\ pc = "error"
            /\ result.kind = "ValueError"
            /\ result.site = "cap"
            /\ n_tables = 0
            /\ n_reps = 0
            /\ accepted = <<>>
       ELSE ~(pc = "error" /\ result.site = "cap")

\* an exact call on a valid ObservedTable failed at the cap
C4_Witness ==
    /\ pc = "error"
    /\ result.site = "cap"
    /\ ValidObserved(cfg)
    /\ cfg.exact

\* two exact calls on the same counts returned, the earlier one with the
\* smaller (or equal) alpha
TwoExactResults ==
    /\ pc = "done"
    /\ cfg.exact
    /\ prev.result.kind = "value"
    /\ prev.alpha <= alpha

\* C5, as stated: the interval of the larger alpha is not smaller, that is
\* lower(alpha2) <= lower(alpha1) and upper(alpha2) >= upper(alpha1).
C5_IntervalDoesNotShrink ==
    TwoExactResults
    => /\ result.bounds[1] <= prev.result.bounds[1]
       /\ result.bounds[2] >= prev.result.bounds[2]

\* C5, amended: the interval of the larger alpha lies inside the interval of
\* the smaller alpha, lower(alpha2) >= lower(alpha1) and
\* upper(alpha2) <= upper(alpha1), whenever both calls return.
C5_IntervalDoesNotGrow ==
    TwoExactResults
    => /\ result.bounds[1] >= prev.result.bounds[1]
       /\ result.bounds[2] <= prev.result.bounds[2]

\* the larger alpha gave a strictly smaller interval
C5_Witness ==
    /\ TwoExactResults
    /\ prev.alpha < alpha
    /\ \/ result.bounds[1] > prev.result.bounds[1]
       \/ result.bounds[2] < prev.result.bounds[2]

\* the values of J popped back into I: those of I outside bottom..top
ReAdded(h) == Range(h.I) \ (h.bottom..h.top)

\* the hypergeometric probability of the values not in I, times comb(N, n)
RejectedNum(h) ==
    SumOver((0..h.n) \ Range(h.I), [k \in 0..h.n |-> PmfNum(h.N, h.G, h.n, k)])

\* C6: for 0 <= G <= N, 0 <= n <= N and 0 < cl < 1, hypergeom_accept with
\* randomized=False raises neither IndexError (no pop from an empty J, no
\* index outside pmf) nor ValueError, every pass of the first loop finds a
\* value left to remove (so the loops end), the back-off re-adds only values
\* of the last removal, and the region returned is a subset of 0..n whose
\* rejected probability is at most alpha = 1 - cl.
C6_ConservativeRegion ==
    /\ hg.err \in {"none", "AssertionError"}
    /\ hg.err = "AssertionError" <=> (hg.pc = "error")
    /\ (hg.pc = "while1" /\ TailBelowAlpha(hg)) => hg.bottom <= hg.top
    /\ (hg.pc \in {"while2", "done"} /\ hg.randomized = FALSE)
        => /\ Range(hg.I) \subseteq 0..hg.n
           /\ Len(hg.I) = Cardinality(Range(hg.I))
           /\ ReAdded(hg) \subseteq hg.removed_last
    /\ (hg.pc = "done" /\ hg.randomized = FALSE)
        => RejectedNum(hg) * ClDen <= (ClDen - hg.cl) * Comb(hg.N, hg.n)

\* a conservative call returned after backing off one of two values removed
\* together, with some value still rejected
C6_Witness ==
    /\ hg.pc = "done"
    /\ hg.randomized = FALSE
    /\ ReAdded(hg) # {}
    /\ Range(hg.I) # 0..hg.n

\* C7: filterTable raises ValueError exactly when the total of the candidate
\* table differs from the observed total (smaller or larger) or an observed
\* count is negative, and returns a boolean otherwise.
C7_MismatchRaises ==
    (fin # <<>> /\ fin.op = "filterTable")
    => /\ fout.err = "ValueError"
            <=> \/ SumSeq(fin.Nt) # ObservedTotal(fin.obs)
                \/ AnyNegative(fin.obs.n00, fin.obs.n01, fin.obs.n10, fin.obs.n11)
       /\ fout.err = "none"
            => fout.ok = FilterTableOk(fin.Nt, fin.obs.n00, fin.obs.n01, fin.obs.n10, fin.obs.n11)

\* the row that the data model puts at place r of the matrix of Nt
ExpectedRow(Nt, r) ==
    IF r <= Nt[1] THEN <<0, 0>>
    ELSE IF r <= Nt[1] + Nt[2] THEN <<0, 1>>
    ELSE IF r <= Nt[1] + Nt[2] + Nt[3] THEN <<1, 0>>
    ELSE <<1, 1>>

\* C8: potential_outcomes raises ValueError exactly when Nt has not four
\* entries or has a negative one; otherwise it returns N00+N01+N10+N11 rows of
\* two columns, N00 rows (0,0), then N01 rows (0,1), then N10 rows (1,0), then
\* N11 rows (1,1), whose column sums are (N10+N11, N01+N11).
C8_OutcomeMatrix ==
    (fin # <<>> /\ fin.op = "potential_outcomes")
    => /\ fout.err = "ValueError"
            <=> (Len(fin.Nt) # 4 \/ \E i \in DOMAIN fin.Nt : fin.Nt[i] < 0)
       /\ fout.err # "ValueError"
            => /\ fout.err = "none"
               /\ Len(fout.val) = fin.Nt[1] + fin.Nt[2] + fin.Nt[3] + fin.Nt[4]
               /\ \A r \in DOMAIN fout.val : fout.val[r] = ExpectedRow(fin.Nt, r)
               /\ SumSeq([r \in DOMAIN fout.val |-> fout.val[r][1]]) = fin.Nt[3] + fin.Nt[4]
               /\ SumSeq([r \in DOMAIN fout.val |-> fout.val[r][2]]) = fin.Nt[2] + fin.Nt[4]

\* a matrix was returned for a table with all four kinds of rows, with
\* different numbers of (0,1) and (1,0) rows
C8_Witness ==
    /\ fin # <<>>
    /\ fin.op = "potential_outcomes"
    /\ fout.err = "none"
    /\ \A i \in 1..4 : fin.Nt[i] >= 1
    /\ fin.Nt[2] # fin.Nt[3]

C10_ConfSetKeepsLastAccepted ==
    /\ pc \in {"loop", "done"}
        => /\ DOMAIN conf_set = {Tau(accepted[i]) : i \in DOMAIN accepted}
           /\ \A k \in DOMAIN conf_set :
                LET last == Max({i \in DOMAIN accepted : Tau(accepted[i]) = k})
                IN  /\ conf_set[k] = accepted[last]
                    /\ conf_set[k][2] - conf_set[k][3] = k
                    /\ SumSeq(conf_set[k]) = N_of(cfg)
                    /\ filterTable(conf_set[k], cfg.n00, cfg.n01, cfg.n10, cfg.n11)
                         = [err |-> "none", val |-> TRUE]
    /\ pc = "done"
        => /\ \A k \in DOMAIN conf_set : result.bounds[1] <= k /\ k <= result.bounds[2]
           /\ result.bounds[1] \in DOMAIN conf_set
           /\ result.bounds[2] \in DOMAIN conf_set
           /\ result.alloc = <<conf_set[result.bounds[1]], conf_set[result.bounds[2]]>>

\* a call returned an extreme tau that two different accepted tables share
C10_Witness ==
    /\ pc = "done"
    /\ cfg.exact
    /\ \E i, j \in DOMAIN accepted :
        /\ i < j
        /\ accepted[i] # accepted[j]
        /\ Tau(accepted[i]) = Tau(accepted[j])
        /\ Tau(accepted[i]) \in {result.bounds[1], result.bounds[2]}

=============================================================================
